---- MODULE Spec2Model ----
(***************************************************************************)
(* Model of the Circular Buffer library (CircularBuffer.c/.h).             *)
(*                                                                         *)
(* One CircBuffer object and one caller-owned "void *" block (dataBuf).    *)
(* Pointers into the data area are modelled as offsets from _dataPtr, so   *)
(* _dataPtr + cbSize is the offset cbSize.  The NULL pointer is 0 and the  *)
(* non-NULL element values are 1 and 2.  ulong counters are naturals: a    *)
(* subtraction that would wrap a ulong shows up as a negative number.      *)
(*                                                                         *)
(* Every library call is one atomic action (the library is used by one     *)
(* thread).  The arguments and the return value of the call are kept in    *)
(* "call" until the caller resumes; no call starts before that.            *)
(*                                                                         *)
(* A second specification, SpecConc, runs one cbWrite thread and one       *)
(* cbRead thread on the same buffer with no exclusion, statement by        *)
(* statement, the load and the store of dataCount++ / dataCount-- apart.   *)
(***************************************************************************)
EXTENDS Integers, Sequences, FiniteSets, TLC

\* ---- bounds of the model ------------------------------------------------
MaxCap == 3
MaxWritten == 4
\* the caller's block may be one cell longer than the largest buffer, so
\* that requests larger than the capacity happen
MaxBuf == MaxCap + 1

\* the NULL pointer, and two distinguishable non-NULL element pointers (the
\* code never looks at an element except to compare it with NULL)
NULL == 0
Elems == {NULL} \cup 1..2

\* a caller's block of n cells: a function 0..n-1 -> Elems
BlocksOf(n) == [0..(n - 1) -> Elems]

VARIABLES
    cBuff,      \* "NULL" (not created), "live", "freed"
    cbSize,     \* CircBuffer.cbSize
    data,       \* the data area *_dataPtr, a function 0..cbSize-1 -> Elems
    readPtr,    \* _readPtr - _dataPtr
    writePtr,   \* _writePtr - _dataPtr
    dataCount,  \* CircBuffer.dataCount
    dataBuf,    \* the caller's block of the last cbCopy / cbPaste, after it
    written,    \* history: elements accepted by cbWrite / cbPaste, in order
    handed,     \* history: elements handed out by cbRead / cbCopy, in order
    freed,      \* sequence of element pointers passed non-NULL to free()
    touched,    \* offsets of the data-area cells the last call stored into
    call,       \* the last call: function, arguments and return value
    thr         \* two-thread use: where the writer and the reader stand

vars == <<cBuff, cbSize, data, readPtr, writePtr, dataCount, dataBuf,
          written, handed, freed, touched, call, thr>>

buffer == <<cbSize, data, readPtr, writePtr, dataCount>>

\* call.dataBuf0 is the caller's block as it was when the call was made
\* call.allocOk is the outcome of the calloc calls of createCBuffer
\* call.afterWrite, between two calls, is the element e when the call that
\* just returned was a cbWrite that stored e into an empty buffer, else NULL
NoCall == [op |-> "none", size |-> 0, allocOk |-> TRUE, data |-> NULL,
           dataBuf0 |-> <<>>, bufSize |-> 0, upTo |-> 0, nullBuf |-> FALSE,
           toFree |-> 0, ret |-> 0, afterWrite |-> NULL]

\* thr.wr is the thread inside cbWrite, thr.rd the thread inside cbRead: the
\* statement each is at, its argument or local, and the dataCount it loaded.
\* thr.stale records that a thread stored a dataCount computed from a value
\* another store had replaced in between.
NoThreads == [wr |-> [pc |-> "idle", data |-> NULL, cnt |-> 0],
              rd |-> [pc |-> "idle", newData |-> NULL, cnt |-> 0],
              stale |-> FALSE]

\* ---- libc helpers -------------------------------------------------------
\* memcpy(dst + d, src + s, n * sizeof(void *))
MemCpy(dst, d, src, s, n) ==
    [i \in DOMAIN dst |-> IF i >= d /\ i < d + n THEN src[s + (i - d)] ELSE dst[i]]

\* memset(dst + d, 0, n * sizeof(void *))
MemSet(dst, d, n) ==
    [i \in DOMAIN dst |-> IF i >= d /\ i < d + n THEN NULL ELSE dst[i]]

\* the cells d .. d+n-1
Cells(d, n) == d..(d + n - 1)

\* the first n cells of a block, as a sequence
Prefix(blk, n) == [k \in 1..n |-> blk[k - 1]]

\* ---- single-element helpers ---------------------------------------------
\* cbRead: "if (cBuff->dataCount == 0) return NULL;"
\* (variant: the empty check is missing)
IsEmptyMutNever(cnt) == FALSE
\* (variant: the empty check is "dataCount <= 1")
IsEmptyMutOne(cnt) == cnt <= 1
IsEmpty(cnt) == cnt = 0

\* cbWrite: "if (cBuff->dataCount == cBuff->cbSize) return 0;"
\* (variants: the full check is "dataCount > cbSize"; the full check is missing)
IsFullMutGt(cnt, size) == cnt > size
IsFullMutNever(cnt, size) == FALSE
IsFull(cnt, size) == cnt = size

\* "ptr++; if (ptr == _dataPtr + cbSize) ptr = _dataPtr;"
\* (variant: the pointer wraps on reaching the last cell)
AdvancePtrMutEarly(ptr, size) == IF ptr + 1 >= size - 1 THEN 0 ELSE ptr + 1
AdvancePtr(ptr, size) == IF ptr + 1 = size THEN 0 ELSE ptr + 1

\* cbRead on a buffer with data area d, as a function: the new data area,
\* read pointer and count, and the value returned
ReadStep(d, size, rp, cnt) ==
    IF IsEmpty(cnt)
    THEN [data |-> d, readPtr |-> rp, dataCount |-> cnt, ret |-> NULL]
    ELSE [data |-> [d EXCEPT ![rp] = NULL], readPtr |-> AdvancePtr(rp, size),
          dataCount |-> cnt - 1, ret |-> d[rp]]

\* n successive cbRead calls; out is the sequence of values returned
RECURSIVE ReadN(_, _, _, _, _)
ReadN(d, size, rp, cnt, n) ==
    IF n = 0
    THEN [data |-> d, readPtr |-> rp, dataCount |-> cnt, out |-> <<>>]
    ELSE LET r == ReadStep(d, size, rp, cnt)
             rest == ReadN(r.data, size, r.readPtr, r.dataCount, n - 1)
         IN  [rest EXCEPT !.out = <<r.ret>> \o @]

\* cbWrite of elem, as a function: the new data area, write pointer and
\* count, and the value returned
WriteStep(d, size, wp, cnt, elem) ==
    IF elem = NULL \/ IsFull(cnt, size)
    THEN [data |-> d, writePtr |-> wp, dataCount |-> cnt, ret |-> 0]
    ELSE [data |-> [d EXCEPT ![wp] = elem], writePtr |-> AdvancePtr(wp, size),
          dataCount |-> cnt + 1, ret |-> 1]

\* successive cbWrite calls of blk[k], ..., blk[n - 1]
RECURSIVE WriteN(_, _, _, _, _, _, _)
WriteN(d, size, wp, cnt, blk, k, n) ==
    IF k >= n
    THEN [data |-> d, writePtr |-> wp, dataCount |-> cnt]
    ELSE LET r == WriteStep(d, size, wp, cnt, blk[k])
         IN  WriteN(r.data, size, r.writePtr, r.dataCount, blk, k + 1, n)

\* ---- cbCopy helpers -------------------------------------------------------
\* cbCopy, the sanity checks and operation requirements (three early returns)
\* (variant: the "dataCount < bufSize" requirement is missing)
CopyRejectedMutNoCount(buf, nullBuf, bufSize, upTo, size, cnt) ==
    \/ nullBuf \/ bufSize = 0 \/ buf = "NULL"
    \/ (upTo = 0 /\ bufSize > size)
    \/ cnt = 0
CopyRejected(buf, nullBuf, bufSize, upTo, size, cnt) ==
    \/ nullBuf \/ bufSize = 0 \/ buf = "NULL"
    \/ (upTo = 0 /\ bufSize > size)
    \/ cnt = 0
    \/ (upTo = 0 /\ cnt < bufSize)

\* cbCopy, "Set the number of operations to do."
\* (variant: ops is not capped by dataCount)
CopyOpsMutNoCap(cnt, bufSize, upTo) == bufSize
CopyOps(cnt, bufSize, upTo) ==
    IF upTo = 0 THEN bufSize
    ELSE IF cnt >= bufSize THEN bufSize ELSE cnt

\* cbCopy, "Read data from the buffer.": the memcpy/memset block
\* (variant: the second memcpy writes to dataBuf, not dataBuf + toEnd)
CopyOutMutDst(d, size, rp, blk, ops) ==
    LET toEnd == size - rp IN
    IF toEnd < ops
    THEN LET b1 == MemCpy(blk, 0, d, rp, toEnd)
             d1 == MemSet(d, rp, toEnd)
             rp1 == 0
             b2 == MemCpy(b1, 0, d1, rp1, ops - toEnd)
             d2 == MemSet(d1, rp1, ops - toEnd)
         IN  [data |-> d2, dataBuf |-> b2, readPtr |-> rp1 + (ops - toEnd),
              touched |-> Cells(rp, toEnd) \cup Cells(rp1, ops - toEnd)]
    ELSE LET b1 == MemCpy(blk, 0, d, rp, ops)
             d1 == MemSet(d, rp, ops)
             rp1 == rp + ops
         IN  [data |-> d1, dataBuf |-> b1,
              readPtr |-> IF rp1 = size THEN 0 ELSE rp1,
              touched |-> Cells(rp, ops)]
\* (variant: the read pointer is not wrapped after a copy in one go)
CopyOutMutNoWrap(d, size, rp, blk, ops) ==
    LET toEnd == size - rp IN
    IF toEnd < ops
    THEN LET b1 == MemCpy(blk, 0, d, rp, toEnd)
             d1 == MemSet(d, rp, toEnd)
             rp1 == 0
             b2 == MemCpy(b1, toEnd, d1, rp1, ops - toEnd)
             d2 == MemSet(d1, rp1, ops - toEnd)
         IN  [data |-> d2, dataBuf |-> b2, readPtr |-> rp1 + (ops - toEnd),
              touched |-> Cells(rp, toEnd) \cup Cells(rp1, ops - toEnd)]
    ELSE LET b1 == MemCpy(blk, 0, d, rp, ops)
             d1 == MemSet(d, rp, ops)
             rp1 == rp + ops
         IN  [data |-> d1, dataBuf |-> b1,
              readPtr |-> rp1,
              touched |-> Cells(rp, ops)]
\* (variant: the memset of a copy in one go clears up to the end of the data area)
CopyOutMutClearToEnd(d, size, rp, blk, ops) ==
    LET toEnd == size - rp IN
    IF toEnd < ops
    THEN LET b1 == MemCpy(blk, 0, d, rp, toEnd)
             d1 == MemSet(d, rp, toEnd)
             rp1 == 0
             b2 == MemCpy(b1, toEnd, d1, rp1, ops - toEnd)
             d2 == MemSet(d1, rp1, ops - toEnd)
         IN  [data |-> d2, dataBuf |-> b2, readPtr |-> rp1 + (ops - toEnd),
              touched |-> Cells(rp, toEnd) \cup Cells(rp1, ops - toEnd)]
    ELSE LET b1 == MemCpy(blk, 0, d, rp, ops)
             d1 == MemSet(d, rp, toEnd)
             rp1 == rp + ops
         IN  [data |-> d1, dataBuf |-> b1,
              readPtr |-> IF rp1 = size THEN 0 ELSE rp1,
              touched |-> Cells(rp, ops)]
CopyOut(d, size, rp, blk, ops) ==
    LET toEnd == size - rp IN
    IF toEnd < ops
    THEN LET b1 == MemCpy(blk, 0, d, rp, toEnd)
             d1 == MemSet(d, rp, toEnd)
             rp1 == 0
             b2 == MemCpy(b1, toEnd, d1, rp1, ops - toEnd)
             d2 == MemSet(d1, rp1, ops - toEnd)
         IN  [data |-> d2, dataBuf |-> b2, readPtr |-> rp1 + (ops - toEnd),
              touched |-> Cells(rp, toEnd) \cup Cells(rp1, ops - toEnd)]
    ELSE LET b1 == MemCpy(blk, 0, d, rp, ops)
             d1 == MemSet(d, rp, ops)
             rp1 == rp + ops
         IN  [data |-> d1, dataBuf |-> b1,
              readPtr |-> IF rp1 = size THEN 0 ELSE rp1,
              touched |-> Cells(rp, ops)]

\* ---- cbPaste helpers ------------------------------------------------------
\* cbPaste, the sanity checks and operation requirements
\* (variant: the "freeCells < bufSize" requirement is missing)
PasteRejectedMutNoFree(buf, nullBuf, bufSize, upTo, size, cnt) ==
    \/ nullBuf \/ bufSize = 0 \/ buf = "NULL"
    \/ (upTo = 0 /\ bufSize > size)
    \/ size - cnt = 0
PasteRejected(buf, nullBuf, bufSize, upTo, size, cnt) ==
    \/ nullBuf \/ bufSize = 0 \/ buf = "NULL"
    \/ (upTo = 0 /\ bufSize > size)
    \/ LET freeCells == size - cnt
       IN  freeCells = 0 \/ (upTo = 0 /\ freeCells < bufSize)

\* cbPaste, "Set the number of operations to do."
\* (variants: ops is not capped; ops is capped by cbSize, not by freeCells)
PasteOpsMutNoCap(size, cnt, bufSize, upTo) == bufSize
PasteOpsMutCapBySize(size, cnt, bufSize, upTo) ==
    IF upTo = 0 THEN bufSize
    ELSE IF size >= bufSize THEN bufSize ELSE size
PasteOps(size, cnt, bufSize, upTo) ==
    LET freeCells == size - cnt IN
    IF upTo = 0 THEN bufSize
    ELSE IF freeCells >= bufSize THEN bufSize ELSE freeCells

\* cbPaste, "Write data to the buffer.": the memcpy block
\* (variant: the second memcpy reads from dataBuf, not dataBuf + toEnd)
PasteInMutSrc(d, size, wp, blk, ops) ==
    LET toEnd == size - wp IN
    IF toEnd < ops
    THEN LET d1 == MemCpy(d, wp, blk, 0, toEnd)
             wp1 == 0
             d2 == MemCpy(d1, wp1, blk, 0, ops - toEnd)
         IN  [data |-> d2, writePtr |-> wp1 + (ops - toEnd),
              touched |-> Cells(wp, toEnd) \cup Cells(wp1, ops - toEnd)]
    ELSE LET d1 == MemCpy(d, wp, blk, 0, ops)
             wp1 == wp + ops
         IN  [data |-> d1,
              writePtr |-> IF wp1 = size THEN 0 ELSE wp1,
              touched |-> Cells(wp, ops)]
\* (variant: the write pointer is not wrapped after a copy in one go)
PasteInMutNoWrap(d, size, wp, blk, ops) ==
    LET toEnd == size - wp IN
    IF toEnd < ops
    THEN LET d1 == MemCpy(d, wp, blk, 0, toEnd)
             wp1 == 0
             d2 == MemCpy(d1, wp1, blk, toEnd, ops - toEnd)
         IN  [data |-> d2, writePtr |-> wp1 + (ops - toEnd),
              touched |-> Cells(wp, toEnd) \cup Cells(wp1, ops - toEnd)]
    ELSE LET d1 == MemCpy(d, wp, blk, 0, ops)
             wp1 == wp + ops
         IN  [data |-> d1,
              writePtr |-> wp1,
              touched |-> Cells(wp, ops)]
PasteIn(d, size, wp, blk, ops) ==
    LET toEnd == size - wp IN
    IF toEnd < ops
    THEN LET d1 == MemCpy(d, wp, blk, 0, toEnd)
             wp1 == 0
             d2 == MemCpy(d1, wp1, blk, toEnd, ops - toEnd)
         IN  [data |-> d2, writePtr |-> wp1 + (ops - toEnd),
              touched |-> Cells(wp, toEnd) \cup Cells(wp1, ops - toEnd)]
    ELSE LET d1 == MemCpy(d, wp, blk, 0, ops)
             wp1 == wp + ops
         IN  [data |-> d1,
              writePtr |-> IF wp1 = size THEN 0 ELSE wp1,
              touched |-> Cells(wp, ops)]

\* ---- deleteCBuffer helper -------------------------------------------------
\* "for (i = 0; i < cbSize; i++) free(_dataPtr[i]);"  free(NULL) does nothing,
\* so the pointers released are the non-NULL cells, in cell order
\* (variant: the loop runs while i < cbSize - 1)
RECURSIVE FreeEntriesMutStopEarly(_, _, _)
FreeEntriesMutStopEarly(d, i, size) ==
    IF i >= size - 1 THEN <<>>
    ELSE (IF d[i] = NULL THEN <<>> ELSE <<d[i]>>)
             \o FreeEntriesMutStopEarly(d, i + 1, size)
RECURSIVE FreeEntries(_, _, _)
FreeEntries(d, i, size) ==
    IF i >= size THEN <<>>
    ELSE (IF d[i] = NULL THEN <<>> ELSE <<d[i]>>) \o FreeEntries(d, i + 1, size)

\* ---- initial state: the caller holds no buffer yet ------------------------
Init ==
    /\ cBuff = "NULL"
    /\ cbSize = 0
    /\ data = <<>>
    /\ readPtr = 0
    /\ writePtr = 0
    /\ dataCount = 0
    /\ dataBuf = <<>>
    /\ written = <<>>
    /\ handed = <<>>
    /\ freed = <<>>
    /\ touched = {}
    /\ call = NoCall
    /\ thr = NoThreads

\* ---- createCBuffer(cbSize) ------------------------------------------------
\* allocOk is the outcome of the two calloc calls
\* (variant: the "cbSize == 0" sanity check is missing)
createCBufferMutNoZeroCheck ==
    /\ call.op = "none"
    /\ cBuff = "NULL"
    /\ \E size \in 0..MaxCap, allocOk \in BOOLEAN :
        LET c == [NoCall EXCEPT !.op = "createCBuffer", !.size = size,
                                !.allocOk = allocOk]
        IN
        IF ~allocOk
        THEN /\ call' = [c EXCEPT !.ret = 0]
             /\ UNCHANGED <<cBuff, cbSize, data, readPtr, writePtr, dataCount>>
        ELSE /\ cBuff' = "live"
             /\ cbSize' = size
             /\ data' = [i \in 0..(size - 1) |-> NULL]
             /\ readPtr' = 0
             /\ writePtr' = 0
             /\ dataCount' = 0
             /\ call' = [c EXCEPT !.ret = 1]
    /\ dataBuf' = <<>>
    /\ touched' = {}
    /\ UNCHANGED <<written, handed, freed, thr>>
createCBuffer ==
    /\ call.op = "none"
    /\ cBuff = "NULL"
    /\ \E size \in 0..MaxCap, allocOk \in BOOLEAN :
        LET c == [NoCall EXCEPT !.op = "createCBuffer", !.size = size,
                                !.allocOk = allocOk]
        IN
        IF size = 0 \/ ~allocOk
        THEN /\ call' = [c EXCEPT !.ret = 0]
             /\ UNCHANGED <<cBuff, cbSize, data, readPtr, writePtr, dataCount>>
        ELSE /\ cBuff' = "live"
             /\ cbSize' = size
             /\ data' = [i \in 0..(size - 1) |-> NULL]
             /\ readPtr' = 0
             /\ writePtr' = 0
             /\ dataCount' = 0
             /\ call' = [c EXCEPT !.ret = 1]
    /\ dataBuf' = <<>>
    /\ touched' = {}
    /\ UNCHANGED <<written, handed, freed, thr>>

\* ---- deleteCBuffer(cBuff, toFree) -----------------------------------------
deleteCBuffer ==
    /\ call.op = "none"
    /\ cBuff \in {"NULL", "live"}
    /\ \E toFree \in {0, 1} :
        /\ call' = [NoCall EXCEPT !.op = "deleteCBuffer", !.toFree = toFree]
        /\ IF cBuff = "NULL"
           THEN UNCHANGED <<cBuff, freed>>
           ELSE /\ cBuff' = "freed"
                /\ freed' = IF toFree # 0 THEN FreeEntries(data, 0, cbSize) ELSE <<>>
    /\ dataBuf' = <<>>
    /\ touched' = {}
    /\ UNCHANGED <<cbSize, data, readPtr, writePtr, dataCount, written, handed, thr>>

\* ---- cbRead(cBuff) --------------------------------------------------------
cbRead ==
    /\ call.op = "none"
    /\ cBuff \in {"NULL", "live"}
    /\ IF cBuff = "NULL" \/ IsEmpty(dataCount)
       THEN /\ call' = [NoCall EXCEPT !.op = "cbRead", !.ret = NULL]
            /\ touched' = {}
            /\ UNCHANGED <<data, readPtr, dataCount, handed>>
       ELSE LET newData == data[readPtr] IN
            /\ data' = [data EXCEPT ![readPtr] = NULL]
            /\ dataCount' = dataCount - 1
            /\ readPtr' = AdvancePtr(readPtr, cbSize)
            /\ handed' = Append(handed, newData)
            /\ touched' = {readPtr}
            /\ call' = [NoCall EXCEPT !.op = "cbRead", !.ret = newData]
    /\ dataBuf' = <<>>
    /\ UNCHANGED <<cBuff, cbSize, writePtr, written, freed, thr>>

\* ---- cbWrite(cBuff, data) -------------------------------------------------
\* (variant: the "data == NULL" sanity check is missing)
cbWriteMutNoNullCheck ==
    /\ call.op = "none"
    /\ cBuff \in {"NULL", "live"}
    /\ \E elem \in Elems :
        IF cBuff = "NULL" \/ IsFull(dataCount, cbSize)
        THEN /\ call' = [NoCall EXCEPT !.op = "cbWrite", !.data = elem, !.ret = 0]
             /\ touched' = {}
             /\ UNCHANGED <<data, writePtr, dataCount, written>>
        ELSE /\ Len(written) < MaxWritten
             /\ data' = [data EXCEPT ![writePtr] = elem]
             /\ dataCount' = dataCount + 1
             /\ writePtr' = AdvancePtr(writePtr, cbSize)
             /\ written' = Append(written, elem)
             /\ touched' = {writePtr}
             /\ call' = [NoCall EXCEPT !.op = "cbWrite", !.data = elem, !.ret = 1]
    /\ dataBuf' = <<>>
    /\ UNCHANGED <<cBuff, cbSize, readPtr, handed, freed, thr>>
cbWrite ==
    /\ call.op = "none"
    /\ cBuff \in {"NULL", "live"}
    /\ \E elem \in Elems :
        IF cBuff = "NULL" \/ elem = NULL \/ IsFull(dataCount, cbSize)
        THEN /\ call' = [NoCall EXCEPT !.op = "cbWrite", !.data = elem, !.ret = 0]
             /\ touched' = {}
             /\ UNCHANGED <<data, writePtr, dataCount, written>>
        ELSE /\ Len(written) < MaxWritten
             /\ data' = [data EXCEPT ![writePtr] = elem]
             /\ dataCount' = dataCount + 1
             /\ writePtr' = AdvancePtr(writePtr, cbSize)
             /\ written' = Append(written, elem)
             /\ touched' = {writePtr}
             /\ call' = [NoCall EXCEPT !.op = "cbWrite", !.data = elem, !.ret = 1]
    /\ dataBuf' = <<>>
    /\ UNCHANGED <<cBuff, cbSize, readPtr, handed, freed, thr>>

\* ---- cbCopy(cBuff, dataBuf, bufSize, upTo) --------------------------------
\* the caller's block has bufSize cells, all holding fill before the call;
\* nullBuf is "dataBuf == NULL"
cbCopy ==
    /\ call.op = "none"
    /\ cBuff \in {"NULL", "live"}
    /\ \E bufSize \in 0..MaxBuf, upTo \in {0, 1}, nullBuf \in BOOLEAN, fill \in Elems :
        LET blk == IF nullBuf THEN <<>> ELSE [i \in 0..(bufSize - 1) |-> fill]
            c == [NoCall EXCEPT !.op = "cbCopy", !.dataBuf0 = blk, !.bufSize = bufSize,
                                !.upTo = upTo, !.nullBuf = nullBuf]
        IN
        /\ nullBuf => fill = NULL
        /\ IF CopyRejected(cBuff, nullBuf, bufSize, upTo, cbSize, dataCount)
           THEN /\ call' = [c EXCEPT !.ret = 0]
                /\ dataBuf' = blk
                /\ touched' = {}
                /\ UNCHANGED <<data, readPtr, dataCount, handed>>
           ELSE LET ops == CopyOps(dataCount, bufSize, upTo)
                    r == CopyOut(data, cbSize, readPtr, blk, ops)
                IN  /\ data' = r.data
                    /\ dataBuf' = r.dataBuf
                    /\ readPtr' = r.readPtr
                    /\ dataCount' = dataCount - ops
                    /\ handed' = handed \o Prefix(r.dataBuf, ops)
                    /\ touched' = r.touched
                    /\ call' = [c EXCEPT !.ret = ops]
    /\ UNCHANGED <<cBuff, cbSize, writePtr, written, freed, thr>>

\* ---- cbPaste(cBuff, dataBuf, bufSize, upTo) -------------------------------
\* the caller's block has bufSize cells of any content
cbPaste ==
    /\ call.op = "none"
    /\ cBuff \in {"NULL", "live"}
    /\ \E bufSize \in 0..MaxBuf, upTo \in {0, 1}, nullBuf \in BOOLEAN :
       \E blk \in (IF nullBuf THEN {<<>>} ELSE BlocksOf(bufSize)) :
        LET c == [NoCall EXCEPT !.op = "cbPaste", !.dataBuf0 = blk, !.bufSize = bufSize,
                                !.upTo = upTo, !.nullBuf = nullBuf]
        IN
        IF PasteRejected(cBuff, nullBuf, bufSize, upTo, cbSize, dataCount)
        THEN /\ call' = [c EXCEPT !.ret = 0]
             /\ dataBuf' = blk
             /\ touched' = {}
             /\ UNCHANGED <<data, writePtr, dataCount, written>>
        ELSE LET ops == PasteOps(cbSize, dataCount, bufSize, upTo)
                 r == PasteIn(data, cbSize, writePtr, blk, ops)
             IN  /\ Len(written) + ops <= MaxWritten
                 /\ data' = r.data
                 /\ dataBuf' = blk
                 /\ writePtr' = r.writePtr
                 /\ dataCount' = dataCount + ops
                 /\ written' = written \o Prefix(blk, ops)
                 /\ touched' = r.touched
                 /\ call' = [c EXCEPT !.ret = ops]
    /\ UNCHANGED <<cBuff, cbSize, readPtr, handed, freed, thr>>

\* ---- the caller resumes after a call returned ---------------------------
\* the arguments, the return value and the block of the call go out of scope
callerResumes ==
    /\ call.op # "none"
    /\ call' = [NoCall EXCEPT !.afterWrite =
                   IF call.op = "cbWrite" /\ call.ret = 1 /\ dataCount = 1
                   THEN call.data ELSE NULL]
    /\ dataBuf' = <<>>
    /\ touched' = {}
    /\ UNCHANGED <<cBuff, cbSize, data, readPtr, writePtr, dataCount,
                   written, handed, freed, thr>>

Next ==
    \/ callerResumes
    \/ createCBuffer
    \/ deleteCBuffer
    \/ cbRead
    \/ cbWrite
    \/ cbCopy
    \/ cbPaste

Spec == Init /\ [][Next]_vars

\* ======================================================================
\* One cbWrite thread and one cbRead thread, no exclusion
\* ======================================================================
\* the buffer as createCBuffer returns it; no thread has started
InitConc ==
    /\ cBuff = "live"
    /\ cbSize \in 1..MaxCap
    /\ data = [i \in 0..(cbSize - 1) |-> NULL]
    /\ readPtr = 0
    /\ writePtr = 0
    /\ dataCount = 0
    /\ dataBuf = <<>>
    /\ written = <<>>
    /\ handed = <<>>
    /\ freed = <<>>
    /\ touched = {}
    /\ call = NoCall
    /\ thr = NoThreads

\* what the steps of the two threads never change
concFrame == <<cBuff, cbSize, dataBuf, freed, touched, call>>

\* cbWrite: the sanity check and the full check
cbWriteCheck ==
    /\ thr.wr.pc = "idle"
    /\ Len(written) < MaxWritten
    /\ \E elem \in Elems :
        IF elem = NULL \/ IsFull(dataCount, cbSize)
        THEN UNCHANGED thr
        ELSE thr' = [thr EXCEPT !.wr = [pc |-> "store", data |-> elem, cnt |-> 0]]
    /\ UNCHANGED <<data, readPtr, writePtr, dataCount, written, handed>>
    /\ UNCHANGED concFrame

\* cbWrite: "*(cBuff->_writePtr) = data;"
cbWriteStore ==
    /\ thr.wr.pc = "store"
    /\ data' = [data EXCEPT ![writePtr] = thr.wr.data]
    /\ written' = Append(written, thr.wr.data)
    /\ thr' = [thr EXCEPT !.wr.pc = "load"]
    /\ UNCHANGED <<readPtr, writePtr, dataCount, handed>>
    /\ UNCHANGED concFrame

\* cbWrite: "cBuff->dataCount++;", the load
cbWriteLoadCount ==
    /\ thr.wr.pc = "load"
    /\ thr' = [thr EXCEPT !.wr.pc = "inc", !.wr.cnt = dataCount]
    /\ UNCHANGED <<data, readPtr, writePtr, dataCount, written, handed>>
    /\ UNCHANGED concFrame

\* cbWrite: "cBuff->dataCount++;", the store
cbWriteStoreCount ==
    /\ thr.wr.pc = "inc"
    /\ dataCount' = thr.wr.cnt + 1
    /\ thr' = [thr EXCEPT !.wr.pc = "advance",
                          !.stale = @ \/ dataCount # thr.wr.cnt]
    /\ UNCHANGED <<data, readPtr, writePtr, written, handed>>
    /\ UNCHANGED concFrame

\* cbWrite: the pointer advance and wrap, "return 1;"
cbWriteAdvance ==
    /\ thr.wr.pc = "advance"
    /\ writePtr' = AdvancePtr(writePtr, cbSize)
    /\ thr' = [thr EXCEPT !.wr = NoThreads.wr]
    /\ UNCHANGED <<data, readPtr, dataCount, written, handed>>
    /\ UNCHANGED concFrame

\* cbRead: the empty check
cbReadCheck ==
    /\ thr.rd.pc = "idle"
    /\ IF IsEmpty(dataCount)
       THEN UNCHANGED thr
       ELSE thr' = [thr EXCEPT !.rd.pc = "take"]
    /\ UNCHANGED <<data, readPtr, writePtr, dataCount, written, handed>>
    /\ UNCHANGED concFrame

\* cbRead: "void *newData = *(cBuff->_readPtr); *(cBuff->_readPtr) = NULL;"
cbReadTake ==
    /\ thr.rd.pc = "take"
    /\ data' = [data EXCEPT ![readPtr] = NULL]
    /\ thr' = [thr EXCEPT !.rd.pc = "load", !.rd.newData = data[readPtr]]
    /\ UNCHANGED <<readPtr, writePtr, dataCount, written, handed>>
    /\ UNCHANGED concFrame

\* cbRead: "cBuff->dataCount--;", the load
cbReadLoadCount ==
    /\ thr.rd.pc = "load"
    /\ thr' = [thr EXCEPT !.rd.pc = "dec", !.rd.cnt = dataCount]
    /\ UNCHANGED <<data, readPtr, writePtr, dataCount, written, handed>>
    /\ UNCHANGED concFrame

\* cbRead: "cBuff->dataCount--;", the store
cbReadStoreCount ==
    /\ thr.rd.pc = "dec"
    /\ dataCount' = thr.rd.cnt - 1
    /\ thr' = [thr EXCEPT !.rd.pc = "advance",
                          !.stale = @ \/ dataCount # thr.rd.cnt]
    /\ UNCHANGED <<data, readPtr, writePtr, written, handed>>
    /\ UNCHANGED concFrame

\* cbRead: the pointer advance and wrap, "return newData;"
cbReadAdvance ==
    /\ thr.rd.pc = "advance"
    /\ readPtr' = AdvancePtr(readPtr, cbSize)
    /\ handed' = Append(handed, thr.rd.newData)
    /\ thr' = [thr EXCEPT !.rd = NoThreads.rd]
    /\ UNCHANGED <<data, writePtr, dataCount, written>>
    /\ UNCHANGED concFrame

NextConc ==
    \/ cbWriteCheck
    \/ cbWriteStore
    \/ cbWriteLoadCount
    \/ cbWriteStoreCount
    \/ cbWriteAdvance
    \/ cbReadCheck
    \/ cbReadTake
    \/ cbReadLoadCount
    \/ cbReadStoreCount
    \/ cbReadAdvance

SpecConc == InitConc /\ [][NextConc]_vars

\* ======================================================================
\* Properties
\* ======================================================================
Min(a, b) == IF a <= b THEN a ELSE b

IsPrefixOf(s, t) == Len(s) <= Len(t) /\ \A i \in 1..Len(s) : s[i] = t[i]

\* the cells holding written-but-not-yet-read elements: the dataCount cells
\* from the read pointer on, modulo the size
LiveCells == {(readPtr + k) % cbSize : k \in 0..(dataCount - 1)}

\* the cells of the data area that hold a non-NULL pointer
NonNullCells == {i \in DOMAIN data : data[i] # NULL}

\* the last call split its copy at the end of the data area
SplitMove == cbSize >= 2 /\ (cbSize - 1) \in touched /\ 0 \in touched

\* C1 (FIFO order): in every reachable state the sequence of elements handed
\* out by cbRead / cbCopy is a prefix of the sequence of elements accepted
\* by cbWrite / cbPaste.
C1_FifoOrder == IsPrefixOf(handed, written)

\* C1 witness: a split cbCopy has handed out two different elements after
\* more elements than the buffer has cells went through it.
C1_Witness ==
    /\ cBuff = "live" /\ call.op = "cbCopy" /\ call.ret >= 2 /\ SplitMove
    /\ Len(handed) > cbSize
    /\ handed[Len(handed)] # handed[Len(handed) - 1]
    /\ handed[Len(handed)] # NULL /\ handed[Len(handed) - 1] # NULL

\* C2 (no overwrite): every cell a cbWrite or cbPaste step stores into is a
\* cell that held no live element before the step.
C2_NoOverwrite ==
    [][call'.op \in {"cbWrite", "cbPaste"}
         => \A i \in touched' : i \notin LiveCells]_vars

\* C2 witness: a split cbPaste has filled the buffer up while it held live
\* elements.
C2_Witness ==
    /\ cBuff = "live" /\ call.op = "cbPaste" /\ SplitMove
    /\ call.ret >= 2 /\ call.ret < dataCount /\ dataCount = cbSize

\* C3 (count range): 0 <= dataCount <= cbSize in every reachable state.
C3_CountInRange == 0 <= dataCount /\ dataCount <= cbSize

\* C3 witness: a best-effort cbPaste asking for more than the free cells has
\* filled the buffer.
C3_Witness ==
    /\ cBuff = "live" /\ call.op = "cbPaste" /\ call.upTo = 1
    /\ call.ret > 0 /\ call.bufSize > call.ret /\ dataCount = cbSize

\* C4 (occupancy): in every reachable state exactly dataCount cells hold a
\* non-NULL pointer, whatever the caller passes to cbWrite and cbPaste.
C4_CountIsNonNullCells == Cardinality(NonNullCells) = dataCount

\* C5 (full rejection): cbWrite on a full buffer returns 0 and changes
\* neither dataCount nor a pointer nor a cell.
C5_FullRejection ==
    [][(call'.op = "cbWrite" /\ cBuff = "live" /\ dataCount = cbSize)
         => (call'.ret = 0 /\ UNCHANGED buffer)]_vars

\* C5 witness: cbWrite of a non-NULL element has returned 0 on a full buffer.
C5_Witness ==
    /\ cBuff = "live" /\ call.op = "cbWrite" /\ call.data # NULL
    /\ call.ret = 0 /\ dataCount = cbSize

\* C6 (empty rejection): cbRead on an empty buffer returns NULL and changes
\* neither dataCount nor a pointer nor a cell.
C6_EmptyRejection ==
    [][(call'.op = "cbRead" /\ cBuff = "live" /\ dataCount = 0)
         => (call'.ret = NULL /\ UNCHANGED buffer)]_vars

\* C6 witness: cbRead has returned NULL without touching a cell, on a buffer
\* that was used and drained before.
C6_Witness ==
    /\ cBuff = "live" /\ call.op = "cbRead" /\ call.ret = NULL
    /\ touched = {} /\ dataCount = 0 /\ Len(handed) > 0

\* C7 (strict cbPaste is atomic): cbPaste with upTo = 0 and bufSize greater
\* than the free cells (also greater than cbSize) returns 0 and changes
\* neither dataCount nor a pointer nor a cell.
C7_StrictPasteRejected ==
    [][(call'.op = "cbPaste" /\ cBuff = "live" /\ call'.upTo = 0
        /\ call'.bufSize > cbSize - dataCount)
         => (call'.ret = 0 /\ UNCHANGED buffer)]_vars

\* C7 witness: a strict cbPaste of a block that would fit an empty buffer
\* has been rejected because fewer cells, but not none, were free.
C7_Witness ==
    /\ cBuff = "live" /\ call.op = "cbPaste" /\ call.upTo = 0 /\ ~call.nullBuf
    /\ call.ret = 0 /\ touched = {}
    /\ 0 < cbSize - dataCount /\ cbSize - dataCount < call.bufSize
    /\ call.bufSize <= cbSize

\* C8 (strict cbCopy is all or nothing): cbCopy with upTo = 0 returns
\* bufSize and removes exactly bufSize elements when 0 < bufSize <=
\* dataCount; otherwise it returns 0 and changes neither the buffer nor the
\* caller's block.
C8_StrictCopyAllOrNothing ==
    [][(call'.op = "cbCopy" /\ cBuff = "live" /\ call'.upTo = 0)
         => IF ~call'.nullBuf /\ 0 < call'.bufSize /\ call'.bufSize <= dataCount
            THEN /\ call'.ret = call'.bufSize
                 /\ dataCount' = dataCount - call'.bufSize
                 /\ Len(handed') = Len(handed) + call'.bufSize
                 /\ Cardinality(touched') = call'.bufSize
            ELSE /\ call'.ret = 0
                 /\ UNCHANGED buffer
                 /\ dataBuf' = call'.dataBuf0]_vars

\* C8 witness: a strict cbCopy asking for more elements than the buffer
\* holds, but not more than its size, has been rejected with the block intact.
C8_Witness ==
    /\ cBuff = "live" /\ call.op = "cbCopy" /\ call.upTo = 0 /\ ~call.nullBuf
    /\ call.ret = 0 /\ 0 < dataCount /\ dataCount < call.bufSize
    /\ call.bufSize <= cbSize
    /\ \A i \in DOMAIN dataBuf : dataBuf[i] # NULL

\* C9 (best-effort cbCopy): cbCopy with upTo = 1 and bufSize > 0 returns
\* min(bufSize, dataCount), and dataCount decreases by exactly that.
C9_BestEffortCopy ==
    [][(call'.op = "cbCopy" /\ cBuff = "live" /\ call'.upTo = 1
        /\ ~call'.nullBuf /\ call'.bufSize > 0)
         => /\ call'.ret = Min(call'.bufSize, dataCount)
            /\ dataCount' = dataCount - call'.ret]_vars

\* C9 witness: a best-effort cbCopy asking for more than cbSize elements has
\* drained a buffer holding at least two.
C9_Witness ==
    /\ cBuff = "live" /\ call.op = "cbCopy" /\ call.upTo = 1
    /\ call.bufSize > cbSize /\ call.ret >= 2 /\ call.ret < call.bufSize
    /\ dataCount = 0

\* C10 (best-effort cbPaste): cbPaste with upTo = 1 and bufSize > 0 returns
\* n = min(bufSize, cbSize - dataCount), stores the first n elements of the
\* block in the n cells from the write pointer on and no other cell, and
\* dataCount increases by exactly n.
C10_BestEffortPaste ==
    [][(call'.op = "cbPaste" /\ cBuff = "live" /\ call'.upTo = 1
        /\ ~call'.nullBuf /\ call'.bufSize > 0)
         => LET n == Min(call'.bufSize, cbSize - dataCount)
                at(k) == (writePtr + k) % cbSize
            IN  /\ call'.ret = n
                /\ dataCount' = dataCount + n
                /\ \A k \in 0..(n - 1) : data'[at(k)] = call'.dataBuf0[k]
                /\ \A i \in DOMAIN data \ {at(k) : k \in 0..(n - 1)} :
                       data'[i] = data[i]]_vars

\* C10 witness: a best-effort cbPaste asking for more than cbSize elements
\* has stored some of them, split at the end of the data area.
C10_Witness ==
    /\ cBuff = "live" /\ call.op = "cbPaste" /\ call.upTo = 1
    /\ call.bufSize > cbSize /\ call.ret >= 2 /\ call.ret < call.bufSize
    /\ SplitMove /\ dataCount = cbSize

\* the number of cells of sequence s that hold e
RECURSIVE CountIn(_, _)
CountIn(s, e) ==
    IF s = <<>> THEN 0
    ELSE (IF Head(s) = e THEN 1 ELSE 0) + CountIn(Tail(s), e)

\* the entries accepted and not yet handed out, oldest first
Resident == SubSeq(written, Len(handed) + 1, Len(written))

\* C11 (destruction ownership): deleteCBuffer with toFree set passes to
\* free() every non-NULL entry still resident in the buffer exactly once (as
\* many times as it is resident) and no entry already handed out by cbRead or
\* cbCopy; with toFree = 0 it frees no element.  (A NULL entry holds nothing
\* to release: free(NULL) does nothing.)
C11_DestructionOwnership ==
    (call.op = "deleteCBuffer" /\ cBuff = "freed")
        => IF call.toFree # 0
           THEN /\ \A e \in Elems \ {NULL} : CountIn(freed, e) = CountIn(Resident, e)
                /\ \A k \in 1..Len(freed) : freed[k] # NULL
           ELSE freed = <<>>

\* C11 witness: a buffer that handed out elements and wrapped has been
\* deleted with toFree set, and two resident elements were freed.
C11_Witness ==
    /\ call.op = "deleteCBuffer" /\ cBuff = "freed" /\ call.toFree = 1
    /\ Len(freed) >= 2 /\ Len(handed) >= 2 /\ writePtr <= readPtr

\* C12 (creation): createCBuffer(cbSize) with cbSize > 0 (and memory to
\* allocate) yields a buffer of that size whose cells are all NULL, whose
\* pointers are both at cell 0 and whose dataCount is 0; createCBuffer(0)
\* yields NULL.
C12_Create ==
    call.op = "createCBuffer"
        => /\ call.size = 0 => (call.ret = 0 /\ cBuff = "NULL")
           /\ (call.size > 0 /\ call.allocOk)
                 => /\ call.ret = 1 /\ cBuff = "live"
                    /\ cbSize = call.size
                    /\ DOMAIN data = 0..(cbSize - 1)
                    /\ \A i \in DOMAIN data : data[i] = NULL
                    /\ readPtr = 0 /\ writePtr = 0 /\ dataCount = 0

\* C12 witness: createCBuffer has made a buffer of more than one cell.
C12_Witness ==
    /\ call.op = "createCBuffer" /\ call.ret = 1 /\ cBuff = "live"
    /\ cbSize >= 2

\* C13 (round trip on an empty buffer): cbWrite of a non-NULL element e on
\* an empty buffer returns 1, and the cbRead that follows it immediately
\* returns e and leaves the buffer empty: dataCount = 0, every cell NULL,
\* read pointer equal to write pointer.
C13_RoundTrip ==
    [][/\ (call'.op = "cbWrite" /\ cBuff = "live" /\ dataCount = 0
           /\ call'.data # NULL)
             => call'.ret = 1
       /\ (call.op = "cbWrite" /\ call.ret = 1 /\ dataCount = 1)
             => call'.afterWrite = call.data
       /\ (call'.op = "cbRead" /\ call.afterWrite # NULL)
             => /\ call'.ret = call.afterWrite
                /\ dataCount' = 0
                /\ \A i \in DOMAIN data' : data'[i] = NULL
                /\ readPtr' = writePtr']_vars

\* C13 witness: on a buffer of one cell that was used before, cbRead has
\* returned the element the cbWrite before it stored.
C13_Witness ==
    /\ cBuff = "live" /\ cbSize = 1 /\ call.op = "cbRead" /\ call.ret # NULL
    /\ Len(handed) >= 2 /\ dataCount = 0
    /\ handed[Len(handed)] # handed[Len(handed) - 1]

\* C14 (NULL element): cbWrite of NULL returns 0 and changes neither
\* dataCount nor a pointer nor a cell, whether the buffer is full or not.
C14_NullElementRejected ==
    [][(call'.op = "cbWrite" /\ call'.data = NULL)
         => (call'.ret = 0 /\ UNCHANGED buffer)]_vars

\* C14 witness: cbWrite of NULL has returned 0 on a buffer that is neither
\* empty nor full.
C14_Witness ==
    /\ cBuff = "live" /\ call.op = "cbWrite" /\ call.data = NULL
    /\ call.ret = 0 /\ 0 < dataCount /\ dataCount < cbSize

\* C15 (cbCopy is repeated cbRead): every cbCopy step that moves n > 0
\* elements leaves the data area, the read pointer and dataCount as n
\* successive cbRead calls would, puts the values those calls would return in
\* cells 0..n-1 of the caller's block, and leaves the cells from n on as
\* they were.
C15_CopyIsRepeatedRead ==
    [][(call'.op = "cbCopy" /\ call'.ret > 0)
         => LET n == call'.ret
                r == ReadN(data, cbSize, readPtr, dataCount, n)
            IN  /\ data' = r.data
                /\ readPtr' = r.readPtr
                /\ dataCount' = r.dataCount
                /\ \A k \in 0..(n - 1) : dataBuf'[k] = r.out[k + 1]
                /\ \A k \in DOMAIN dataBuf' :
                       k >= n => dataBuf'[k] = call'.dataBuf0[k]
                /\ UNCHANGED writePtr]_vars

\* C15 witness: a cbCopy split at the end of the data area has moved two
\* different elements into a longer block and left live elements behind.
C15_Witness ==
    /\ cBuff = "live" /\ call.op = "cbCopy" /\ SplitMove /\ call.ret >= 2
    /\ call.bufSize > call.ret /\ dataBuf[0] # dataBuf[1]
    /\ dataBuf[0] # NULL /\ dataBuf[1] # NULL /\ dataBuf[call.ret] # NULL

\* C16 (cbPaste is repeated cbWrite): every cbPaste step that moves n > 0
\* non-NULL elements leaves the data area, the write pointer and dataCount as
\* n successive cbWrite calls of the block's cells 0..n-1 would.
C16_PasteIsRepeatedWrite ==
    [][(call'.op = "cbPaste" /\ call'.ret > 0
        /\ \A k \in 0..(call'.ret - 1) : call'.dataBuf0[k] # NULL)
         => LET n == call'.ret
                r == WriteN(data, cbSize, writePtr, dataCount, call'.dataBuf0, 0, n)
            IN  /\ data' = r.data
                /\ writePtr' = r.writePtr
                /\ dataCount' = r.dataCount
                /\ UNCHANGED readPtr]_vars

\* C16 witness: a cbPaste split at the end of the data area has stored two
\* different non-NULL elements next to a live one.
C16_Witness ==
    /\ cBuff = "live" /\ call.op = "cbPaste" /\ SplitMove /\ call.ret = 2
    /\ dataBuf[0] # NULL /\ dataBuf[1] # NULL /\ dataBuf[0] # dataBuf[1]
    /\ dataCount = 3

\* C17 (pointer range): once the buffer exists, the read pointer and the
\* write pointer are cells of the data area, 0 <= pointer < cbSize; neither
\* rests at _dataPtr + cbSize.
C17_PointersInRange ==
    cBuff # "NULL" => (readPtr \in 0..(cbSize - 1) /\ writePtr \in 0..(cbSize - 1))

\* C17 witness: a cbCopy in one go has cleared two cells up to the last cell
\* of the data area and left the read pointer at cell 0.
C17_Witness ==
    /\ cBuff = "live" /\ call.op = "cbCopy" /\ call.ret >= 2
    /\ (cbSize - 1) \in touched /\ 0 \notin touched /\ readPtr = 0

\* C18 (pointers and count agree): once the buffer exists, writePtr =
\* (readPtr + dataCount) mod cbSize; the pointers coincide exactly when the
\* buffer is empty or full; and the dataCount cells from the read pointer on
\* hold the entries accepted and not yet handed out, oldest first, every
\* other cell being NULL.
C18_PointersAgreeWithCount ==
    cBuff # "NULL" =>
        /\ writePtr = (readPtr + dataCount) % cbSize
        /\ (readPtr = writePtr) <=> (dataCount = 0 \/ dataCount = cbSize)
        /\ Len(Resident) = dataCount
        /\ \A k \in 0..(dataCount - 1) :
               data[(readPtr + k) % cbSize] = Resident[k + 1]
        /\ \A i \in DOMAIN data : i \notin LiveCells => data[i] = NULL

\* C18 witness: a full buffer of three cells whose live elements wrap around
\* the end of the data area.
C18_Witness ==
    /\ cBuff = "live" /\ cbSize = 3 /\ dataCount = cbSize /\ readPtr = 1
    /\ writePtr = 1 /\ \A i \in DOMAIN data : data[i] # NULL

\* C19 (disjoint ends): cbWrite and cbPaste leave the read pointer and every
\* live cell as they were, and cbPaste leaves the caller's block as it was;
\* cbRead and cbCopy leave the write pointer and every cell but the ones
\* they hand out as they were; no call on an existing buffer changes cbSize.
C19_DisjointEnds ==
    [][/\ call'.op \in {"cbWrite", "cbPaste"}
             => /\ readPtr' = readPtr
                /\ \A i \in LiveCells : data'[i] = data[i]
       /\ call'.op = "cbPaste" => dataBuf' = call'.dataBuf0
       /\ call'.op \in {"cbRead", "cbCopy"}
             => LET n == Len(handed') - Len(handed)
                    out == {(readPtr + k) % cbSize : k \in 0..(n - 1)}
                IN  /\ writePtr' = writePtr
                    /\ \A i \in DOMAIN data \ out : data'[i] = data[i]
       /\ cBuff # "NULL" => cbSize' = cbSize]_vars

\* C19 witness: a cbCopy has handed out one element of a buffer of three
\* cells and left two live elements in place.
C19_Witness ==
    /\ cBuff = "live" /\ call.op = "cbCopy" /\ call.ret = 1 /\ cbSize = 3
    /\ dataCount = 2 /\ Cardinality(NonNullCells) = 2

\* both threads are between two calls
Quiescent == thr.wr.pc = "idle" /\ thr.rd.pc = "idle"

\* C20 (no internal synchronization): with one cbWrite thread and one cbRead
\* thread on the same buffer and the load and store of the dataCount updates
\* apart, dataCount differs from the number of occupied cells between calls
\* only after an update of dataCount was lost (a thread stored a count
\* computed from a replaced value); the witness shows such a state is
\* reached, nothing in the structure excludes it.
C20_MismatchOnlyByLostUpdate ==
    (Quiescent /\ dataCount # Cardinality(NonNullCells)) => thr.stale

\* C20 witness: both threads are between calls and dataCount differs from
\* the number of occupied cells.
C20_Witness ==
    /\ Quiescent /\ dataCount # Cardinality(NonNullCells)
    /\ dataCount >= 0 /\ dataCount <= cbSize

====
